---- MODULE Spec2Model ----
(***************************************************************************)
(* A model of savepatcher::SaveFile (src/src/savefile.cpp): the original   *)
(* and the patched save buffer, the sections read and replaced in them,    *)
(* the Steam ID replacement, the checksum recalculation and the write of   *)
(* the patched buffer.                                                     *)
(*                                                                         *)
(* savefile.h and util.h are not part of the sources at hand: the Section  *)
(* type, the section table, the constructor, GenerateMd5, FormatHex and    *)
(* SecondsToTimeStamp are modelled from the written specification.  The    *)
(* layout is scaled down (a file of 27 bytes, a digest of 2 bytes); the    *)
(* order and the disjointness of the sections are the specification's.     *)
(*                                                                         *)
(* A byte is a number in 0..255.  A u64 is four 16 bit limbs and a u32 two *)
(* of them, least significant first, so that every 64 bit value is         *)
(* represented exactly.  A std::string is a sequence: of character codes   *)
(* for charsFrom, of hexadecimal digits for FormatHex.                     *)
(***************************************************************************)
EXTENDS Integers, Sequences, FiniteSets, TLC

VARIABLES inFile, outFile, phase, originalSaveData, patchedSaveData,
          activeSlotIndex, probe, last

vars == <<inFile, outFile, phase, originalSaveData, patchedSaveData,
          activeSlotIndex, probe, last>>

(* How many bytes longer than SaveFileSize an input file may be. *)
MaxExtra == 1

(* ------------------------------------------------------------------ *)
(* The section table (scaled down).                                   *)
(* ------------------------------------------------------------------ *)
SaveFileSize == 27
Md5DigestLength == 2

HeaderBNDSection == [address |-> 0, size |-> 3]
SaveHeaderChecksumSection == [address |-> 3, size |-> Md5DigestLength]
SaveHeaderSection == [address |-> 5, size |-> 3]
SteamIdSection == [address |-> 8, size |-> 8]
NameSection == [address |-> 16, size |-> 2]
SecondsPlayedSection == [address |-> 18, size |-> 4]
LevelSection == [address |-> 22, size |-> 1]
ActiveSection == [address |-> 23, size |-> 4]

BND == <<66, 78, 68>>

(* ------------------------------------------------------------------ *)
(* Section: the typed views of a byte range, and its replacement.     *)
(* ------------------------------------------------------------------ *)
InRange(section, data) == section.address + section.size <= Len(data)

bytesFrom(section, data) ==
    SubSeq(data, section.address + 1, section.address + section.size)

RECURSIVE TrimNull(_)
TrimNull(s) ==
    IF s # <<>> /\ s[Len(s)] = 0 THEN TrimNull(SubSeq(s, 1, Len(s) - 1)) ELSE s

charsFrom(section, data) == TrimNull(bytesFrom(section, data))

(* The little-endian integer of the section's bytes, as 16 bit limbs. *)
castInteger(section, data) ==
    LET b == bytesFrom(section, data)
    IN  [k \in 1..(section.size \div 2) |-> b[2 * k - 1] + 256 * b[2 * k]]

replace(section, data, newSection) ==
    [i \in 1..Len(data) |->
        IF i > section.address /\ i <= section.address + Len(newSection)
        THEN newSection[i - section.address]
        ELSE data[i]]

(* ------------------------------------------------------------------ *)
(* util.h: the digest, the hexadecimal format and the time stamp.     *)
(* ------------------------------------------------------------------ *)
RECURSIVE Md5Fold(_, _)
Md5Fold(bytes, h) ==
    IF bytes = <<>> THEN h
    ELSE Md5Fold(Tail(bytes), (h * 31 + Head(bytes) + 7) % 65536)

GenerateMd5(bytes) ==
    LET h == Md5Fold(bytes, 4660) IN <<h % 256, h \div 256>>

HexDigits == <<"0", "1", "2", "3", "4", "5", "6", "7",
               "8", "9", "a", "b", "c", "d", "e", "f">>

RECURSIVE FormatHex(_)
FormatHex(bytes) ==
    IF bytes = <<>> THEN <<>>
    ELSE <<HexDigits[(Head(bytes) \div 16) + 1], HexDigits[(Head(bytes) % 16) + 1]>>
         \o FormatHex(Tail(bytes))

(* <<hours, minutes, seconds>> of a u32 of seconds (two limbs). *)
SecondsToTimeStamp(secs) ==
    LET q1 == secs[2] \div 3600
        low == (secs[2] % 3600) * 65536 + secs[1]
    IN  <<q1 * 65536 + low \div 3600, (low % 3600) \div 60, low % 60>>

(* ------------------------------------------------------------------ *)
(* Outcomes.  Every failure of the code is a thrown exception; status *)
(* is its kind and what is its message (with the label it names).     *)
(* ------------------------------------------------------------------ *)
Ok == [status |-> "ok", what |-> "", target |-> ""]
Thrown(kind, message, label) == [status |-> kind, what |-> message, target |-> label]
OutOfRange == Thrown("OutOfRange", "section out of range", "")

(* ------------------------------------------------------------------ *)
(* SaveFile: validation, the active slot and the read accessors.      *)
(* ------------------------------------------------------------------ *)
validateData(data, target) ==
    IF ~InRange(HeaderBNDSection, data) THEN OutOfRange
    ELSE IF charsFrom(HeaderBNDSection, data) # BND \/ Len(data) # SaveFileSize
         THEN Thrown("FormatError", "is not a valid Elden Ring save file.", target)
         ELSE Ok

(* std::find over the section: the least index holding the byte v, or the size. *)
FindByte(section, v) ==
    LET hits == {i \in 1..Len(section) : section[i] = v}
    IN  IF hits = {} THEN Len(section)
        ELSE (CHOOSE i \in hits : \A j \in hits : i <= j) - 1

FindNonZero(section) ==
    LET hits == {i \in 1..Len(section) : section[i] # 0}
    IN  IF hits = {} THEN Len(section)
        ELSE (CHOOSE i \in hits : \A j \in hits : i <= j) - 1

getActiveSlotIndex_AnyTrue(data) ==
    IF ~InRange(ActiveSection, data) THEN [out |-> OutOfRange, index |-> 0]
    ELSE LET section == bytesFrom(ActiveSection, data)
             found == FindNonZero(section)
         IN  IF found = Len(section)
             THEN [out |-> Thrown("NotFound", "Could not find active slot index", ""),
                   index |-> 0]
             ELSE [out |-> Ok, index |-> found]

getActiveSlotIndex(data) ==
    IF ~InRange(ActiveSection, data) THEN [out |-> OutOfRange, index |-> 0]
    ELSE LET section == bytesFrom(ActiveSection, data)
             found == FindByte(section, 1)
         IN  IF found = Len(section)
             THEN [out |-> Thrown("NotFound", "Could not find active slot index", ""),
                   index |-> 0]
             ELSE [out |-> Ok, index |-> found]

checksum(data) == FormatHex(bytesFrom(SaveHeaderChecksumSection, data))

name(data) == charsFrom(NameSection, data)

timePlayed(data) == SecondsToTimeStamp(castInteger(SecondsPlayedSection, data))

activeSlot(data) == activeSlotIndex

steamId(data) == castInteger(SteamIdSection, data)

level(data) == bytesFrom(LevelSection, data)[1]

(* ------------------------------------------------------------------ *)
(* SaveFile: the two mutations of the patched buffer.                 *)
(* ------------------------------------------------------------------ *)
(* u8(inputSteamId >> (i * 8)) of a u64 held as limbs. *)
ShiftedByte(x, i) == (x[(i \div 2) + 1] \div (IF i % 2 = 0 THEN 1 ELSE 256)) % 256

SteamIdBytes_BigEndian(inputSteamId) ==
    [k \in 1..SteamIdSection.size |->
        ShiftedByte(inputSteamId, SteamIdSection.size - k)]

SteamIdBytes(inputSteamId) ==
    [k \in 1..SteamIdSection.size |-> ShiftedByte(inputSteamId, k - 1)]

replaceSteamId_OriginalGuard(data, inputSteamId) ==
    IF ~InRange(SteamIdSection, data) \/ ~InRange(SteamIdSection, originalSaveData)
    THEN [out |-> OutOfRange, data |-> data]
    ELSE IF steamId(originalSaveData) = inputSteamId
         THEN [out |-> Thrown("NoOpError", "Steam ID is already correct", ""),
               data |-> data]
         ELSE [out |-> Ok,
               data |-> replace(SteamIdSection, data, SteamIdBytes(inputSteamId))]

replaceSteamId_Insert(data, inputSteamId) ==
    IF ~InRange(SteamIdSection, data) THEN [out |-> OutOfRange, data |-> data]
    ELSE IF steamId(data) = inputSteamId
         THEN [out |-> Thrown("NoOpError", "Steam ID is already correct", ""),
               data |-> data]
         ELSE [out |-> Ok,
               data |-> SubSeq(data, 1, SteamIdSection.address)
                        \o SteamIdBytes(inputSteamId)
                        \o SubSeq(data, SteamIdSection.address + 1, Len(data))]

replaceSteamId(data, inputSteamId) ==
    IF ~InRange(SteamIdSection, data) THEN [out |-> OutOfRange, data |-> data]
    ELSE IF steamId(data) = inputSteamId
         THEN [out |-> Thrown("NoOpError", "Steam ID is already correct", ""),
               data |-> data]
         ELSE [out |-> Ok,
               data |-> replace(SteamIdSection, data, SteamIdBytes(inputSteamId))]

recalculateChecksum_WrongSection(data) ==
    IF ~InRange(SaveHeaderSection, data) \/ ~InRange(SaveHeaderChecksumSection, data)
    THEN [out |-> OutOfRange, data |-> data, string |-> <<>>]
    ELSE LET saveHeaderChecksum == GenerateMd5(bytesFrom(SaveHeaderChecksumSection, data))
             saveHeaderChecksumString == FormatHex(saveHeaderChecksum)
         IN  IF checksum(data) = saveHeaderChecksumString
             THEN [out |-> Thrown("NoOpError", "Save header checksum is already correct", ""),
                   data |-> data, string |-> <<>>]
             ELSE [out |-> Ok,
                   data |-> replace(SaveHeaderChecksumSection, data, saveHeaderChecksum),
                   string |-> saveHeaderChecksumString]

recalculateChecksum_InvertedGuard(data) ==
    IF ~InRange(SaveHeaderSection, data) \/ ~InRange(SaveHeaderChecksumSection, data)
    THEN [out |-> OutOfRange, data |-> data, string |-> <<>>]
    ELSE LET saveHeaderChecksum == GenerateMd5(bytesFrom(SaveHeaderSection, data))
             saveHeaderChecksumString == FormatHex(saveHeaderChecksum)
         IN  IF checksum(data) # saveHeaderChecksumString
             THEN [out |-> Thrown("NoOpError", "Save header checksum is already correct", ""),
                   data |-> data, string |-> <<>>]
             ELSE [out |-> Ok,
                   data |-> replace(SaveHeaderChecksumSection, data, saveHeaderChecksum),
                   string |-> saveHeaderChecksumString]

recalculateChecksum_OriginalGuard(data) ==
    IF ~InRange(SaveHeaderSection, data) \/ ~InRange(SaveHeaderChecksumSection, data)
       \/ ~InRange(SaveHeaderChecksumSection, originalSaveData)
    THEN [out |-> OutOfRange, data |-> data, string |-> <<>>]
    ELSE LET saveHeaderChecksum == GenerateMd5(bytesFrom(SaveHeaderSection, data))
             saveHeaderChecksumString == FormatHex(saveHeaderChecksum)
         IN  IF checksum(originalSaveData) = saveHeaderChecksumString
             THEN [out |-> Thrown("NoOpError", "Save header checksum is already correct", ""),
                   data |-> data, string |-> <<>>]
             ELSE [out |-> Ok,
                   data |-> replace(SaveHeaderChecksumSection, data, saveHeaderChecksum),
                   string |-> saveHeaderChecksumString]

recalculateChecksum(data) ==
    IF ~InRange(SaveHeaderSection, data) \/ ~InRange(SaveHeaderChecksumSection, data)
    THEN [out |-> OutOfRange, data |-> data, string |-> <<>>]
    ELSE LET saveHeaderChecksum == GenerateMd5(bytesFrom(SaveHeaderSection, data))
             saveHeaderChecksumString == FormatHex(saveHeaderChecksum)
         IN  IF checksum(data) = saveHeaderChecksumString
             THEN [out |-> Thrown("NoOpError", "Save header checksum is already correct", ""),
                   data |-> data, string |-> <<>>]
             ELSE [out |-> Ok,
                   data |-> replace(SaveHeaderChecksumSection, data, saveHeaderChecksum),
                   string |-> saveHeaderChecksumString]

(* ------------------------------------------------------------------ *)
(* SaveFile: the files.  A path holds no file or a file's bytes.      *)
(* ------------------------------------------------------------------ *)
NoFile == [exists |-> FALSE, bytes |-> <<>>]
FileOf(bytes) == [exists |-> TRUE, bytes |-> bytes]

loadFile(file) ==
    IF ~file.exists
    THEN [out |-> Thrown("IOError", "Could not open file", ""), data |-> <<>>]
    ELSE [out |-> Ok, data |-> file.bytes]

(* std::ofstream's constructor comes first: an openable path is created or *)
(* truncated before the data is validated.                                 *)
write(data, file, openable) ==
    LET opened == IF openable THEN FileOf(<<>>) ELSE file
        valid == validateData(data, "Generated data")
    IN  IF valid.status # "ok" THEN [out |-> valid, file |-> opened]
        ELSE IF ~openable
             THEN [out |-> Thrown("IOError", "Could not open file", ""), file |-> opened]
             ELSE [out |-> Ok, file |-> FileOf(data)]

(* ------------------------------------------------------------------ *)
(* The inputs: Steam IDs, input files and probe buffers.              *)
(* ------------------------------------------------------------------ *)
(* 76561197960287930 = 0x01100001000056BA and its successor. *)
ScenarioOldId == <<22202, 0, 1, 272>>
ScenarioNewId == <<22203, 0, 1, 272>>
MixedId == <<258, 772, 1286, 1800>>
SteamIds == {ScenarioOldId, ScenarioNewId, MixedId}

Magics == {BND, <<66, 78, 88>>, <<66, 78, 0>>}
HeaderBytes == <<17, 0, 34>>
Checksums == {<<0, 0>>, GenerateMd5(HeaderBytes)}
Actives == {<<0, 0, 1, 0>>, <<0, 0, 0, 0>>, <<1, 0, 1, 0>>, <<2, 0, 0, 1>>}
Padding(n) == [i \in 1..n |-> 7]

(* The player fields go with the Steam ID, to keep the set of files small. *)
PlayerBytes(id) ==
    IF id = ScenarioOldId THEN <<65, 0>> \o <<16, 14, 0, 0>> \o <<1>>
    ELSE <<90, 89>> \o <<255, 255, 255, 255>> \o <<150>>

MakeFile(magic, sum, id, active, extra) ==
    magic \o sum \o HeaderBytes \o SteamIdBytes(id) \o PlayerBytes(id)
          \o active \o Padding(extra)

FullFiles ==
    {MakeFile(m, c, id, a, n) :
        m \in Magics, c \in Checksums, id \in {ScenarioOldId, MixedId},
        a \in Actives, n \in 0..MaxExtra}

BaseFile == MakeFile(BND, <<0, 0>>, ScenarioOldId, <<0, 0, 1, 0>>, 0)

ShortFiles == {SubSeq(BaseFile, 1, n) : n \in 0..(SaveFileSize - 1)}

Files == FullFiles \cup ShortFiles

ProbeBuffers ==
    {MakeFile(BND, <<0, 0>>, MixedId, <<1, 0, 1, 0>>, 0),
     MakeFile(BND, GenerateMd5(HeaderBytes), ScenarioOldId, <<0, 0, 0, 1>>, 0)}

OldOutput == FileOf(<<9, 9>>)

(* ------------------------------------------------------------------ *)
(* The state machine.  last records the latest call: the operation,   *)
(* its arguments, its outcome, its return value and, for a checksum   *)
(* recalculation, the successful mutation it came right after.        *)
(* ------------------------------------------------------------------ *)
Call(op, buf, arg, out, result, after) ==
    [op |-> op, buf |-> buf, arg |-> arg, out |-> out, result |-> result,
     after |-> after]

NoCall == Call("none", "", <<>>, Ok, <<>>, "")

Buffer(buf) ==
    CASE buf = "original" -> originalSaveData
      [] buf = "patched" -> patchedSaveData
      [] buf = "probe" -> probe

Init ==
    /\ inFile \in {NoFile} \cup {FileOf(f) : f \in Files}
    /\ outFile \in {NoFile, OldOutput}
    /\ probe \in ProbeBuffers
    /\ phase = "start"
    /\ originalSaveData = <<>>
    /\ patchedSaveData = <<>>
    /\ activeSlotIndex = 0
    /\ last = NoCall

(* SaveFile(filename): load the file, copy it, find the active slot. *)
Construct ==
    /\ phase = "start"
    /\ LET loaded == loadFile(inFile)
           slot == getActiveSlotIndex(loaded.data)
           out == IF loaded.out.status # "ok" THEN loaded.out ELSE slot.out
       IN  /\ phase' = IF out.status = "ok" THEN "loaded" ELSE "failed"
           /\ originalSaveData' = IF out.status = "ok" THEN loaded.data ELSE <<>>
           /\ patchedSaveData' = IF out.status = "ok" THEN loaded.data ELSE <<>>
           /\ activeSlotIndex' = IF out.status = "ok" THEN slot.index ELSE 0
           /\ last' = Call("SaveFile", "", <<>>, out, <<>>, "")
    /\ UNCHANGED <<inFile, outFile, probe>>

CallValidateData(buf, target) ==
    /\ phase = "loaded"
    /\ last' = Call("validateData", buf, target, validateData(Buffer(buf), target),
                    <<>>, "")
    /\ UNCHANGED <<inFile, outFile, phase, originalSaveData, patchedSaveData,
                   activeSlotIndex, probe>>

CallReplaceSteamId(inputSteamId) ==
    /\ phase = "loaded"
    /\ LET r == replaceSteamId(patchedSaveData, inputSteamId)
       IN  /\ patchedSaveData' = r.data
           /\ last' = Call("replaceSteamId", "patched", inputSteamId, r.out, <<>>, "")
    /\ UNCHANGED <<inFile, outFile, phase, originalSaveData, activeSlotIndex, probe>>

CallRecalculateChecksum ==
    /\ phase = "loaded"
    /\ LET r == recalculateChecksum(patchedSaveData)
       IN  /\ patchedSaveData' = r.data
           /\ last' = Call("recalculateChecksum", "patched", <<>>, r.out, r.string,
                           IF last.out.status = "ok"
                              /\ last.op \in {"replaceSteamId", "recalculateChecksum"}
                           THEN last.op ELSE "")
    /\ UNCHANGED <<inFile, outFile, phase, originalSaveData, activeSlotIndex, probe>>

CallWrite(openable) ==
    /\ phase = "loaded"
    /\ LET r == write(patchedSaveData, outFile, openable)
       IN  /\ outFile' = r.file
           /\ last' = Call("write", "patched", <<>>, r.out, <<>>, "")
    /\ UNCHANGED <<inFile, phase, originalSaveData, patchedSaveData,
                   activeSlotIndex, probe>>

Accessed(op, buf, result) ==
    /\ phase = "loaded"
    /\ last' = Call(op, buf, <<>>, Ok, result, "")
    /\ UNCHANGED <<inFile, outFile, phase, originalSaveData, patchedSaveData,
                   activeSlotIndex, probe>>

CallChecksum(buf) == Accessed("checksum", buf, checksum(Buffer(buf)))
CallName(buf) == Accessed("name", buf, name(Buffer(buf)))
CallTimePlayed(buf) == Accessed("timePlayed", buf, timePlayed(Buffer(buf)))
CallActiveSlot(buf) == Accessed("activeSlot", buf, activeSlot(Buffer(buf)))
CallSteamId(buf) == Accessed("steamId", buf, steamId(Buffer(buf)))
CallLevel(buf) == Accessed("level", buf, level(Buffer(buf)))

Buffers == {"original", "patched", "probe"}

Next ==
    \/ Construct
    \/ CallValidateData("original", "Input file")
    \/ CallValidateData("patched", "Generated data")
    \/ \E x \in SteamIds : CallReplaceSteamId(x)
    \/ CallRecalculateChecksum
    \/ \E openable \in BOOLEAN : CallWrite(openable)
    \/ \E buf \in Buffers : CallChecksum(buf)
    \/ \E buf \in Buffers : CallName(buf)
    \/ \E buf \in Buffers : CallTimePlayed(buf)
    \/ \E buf \in Buffers : CallActiveSlot(buf)
    \/ \E buf \in Buffers : CallSteamId(buf)
    \/ \E buf \in Buffers : CallLevel(buf)

Spec == Init /\ [][Next]_vars

(* ------------------------------------------------------------------ *)
(* The functions of a buffer alone, applied to every candidate buffer. *)
(* ------------------------------------------------------------------ *)
Labels == {"Input file", "Generated data"}

InitPure ==
    /\ inFile = NoFile
    /\ outFile = NoFile
    /\ probe \in Files
    /\ phase = "start"
    /\ originalSaveData = <<>>
    /\ patchedSaveData = <<>>
    /\ activeSlotIndex = 0
    /\ last = NoCall

ApplyValidateData(target) ==
    /\ last' = Call("validateData", "probe", target, validateData(probe, target),
                    <<>>, "")
    /\ UNCHANGED <<inFile, outFile, phase, originalSaveData, patchedSaveData,
                   activeSlotIndex, probe>>

ApplyGetActiveSlotIndex ==
    /\ LET r == getActiveSlotIndex(probe)
       IN  last' = Call("getActiveSlotIndex", "probe", <<>>, r.out, r.index, "")
    /\ UNCHANGED <<inFile, outFile, phase, originalSaveData, patchedSaveData,
                   activeSlotIndex, probe>>

NextPure ==
    \/ \E target \in Labels : ApplyValidateData(target)
    \/ ApplyGetActiveSlotIndex

SpecPure == InitPure /\ [][NextPure]_vars

(* ================================================================== *)
(* The properties.                                                    *)
(* ================================================================== *)
Valid(data) == validateData(data, "").status = "ok"

HeaderDigestHex(data) == FormatHex(GenerateMd5(bytesFrom(SaveHeaderSection, data)))

InSection(section, i) == i > section.address /\ i <= section.address + section.size

(* C1: validateData(buffer, label) succeeds exactly when the buffer has the  *)
(* fixed size and its first three bytes are "BND"; every other buffer, also  *)
(* a shorter or a longer one, fails with the format error naming the label.  *)
C1_ValidateIffSizeAndMagic ==
    last.op = "validateData" =>
        IF Len(probe) = SaveFileSize /\ SubSeq(probe, 1, 3) = BND
        THEN last.out.status = "ok"
        ELSE last.out.status = "FormatError" /\ last.out.target = last.arg

(* C2: replaceSteamId(x) with x other than the current Steam ID succeeds;    *)
(* afterwards steamId of the patched buffer is x, the buffer has the length  *)
(* it had, and every byte outside the Steam ID section is as it was.         *)
C2_ReplaceSteamIdFrame ==
    [][(phase = "loaded" /\ last'.op = "replaceSteamId"
            /\ last'.arg # steamId(patchedSaveData)) =>
        /\ last'.out.status = "ok"
        /\ steamId(patchedSaveData') = last'.arg
        /\ Len(patchedSaveData') = Len(patchedSaveData)
        /\ \A i \in 1..Len(patchedSaveData) :
              ~InSection(SteamIdSection, i) => patchedSaveData'[i] = patchedSaveData[i]
      ]_vars

C2_Witness ==
    /\ last.op = "replaceSteamId" /\ last.out.status = "ok" /\ last.arg = MixedId
    /\ steamId(patchedSaveData) = MixedId
    /\ steamId(originalSaveData) = ScenarioOldId

(* C3: once recalculateChecksum() has been called, checksum of the patched   *)
(* buffer is the hexadecimal digest of the save header bytes as they are     *)
(* after the call, and a successful call returned that string.               *)
C3_ChecksumMatchesHeader ==
    last.op = "recalculateChecksum" =>
        /\ last.out.status \in {"ok", "NoOpError"}
        /\ checksum(patchedSaveData) = HeaderDigestHex(patchedSaveData)
        /\ last.out.status = "ok" => last.result = checksum(patchedSaveData)

C3_Witness ==
    /\ last.op = "recalculateChecksum" /\ last.out.status = "ok"
    /\ checksum(patchedSaveData) # checksum(originalSaveData)

(* C4, as claimed: on a valid buffer, a successful replaceSteamId(newId)     *)
(* followed by recalculateChecksum() completes without error, with newId as  *)
(* the Steam ID and the header digest as the checksum, also when the file's  *)
(* stored checksum was consistent with its header already.                   *)
C4_ReplaceThenRecalculateSucceeds ==
    [][(last.op = "replaceSteamId" /\ last.out.status = "ok"
            /\ Valid(patchedSaveData) /\ last'.op = "recalculateChecksum") =>
        /\ last'.out.status = "ok"
        /\ steamId(patchedSaveData') = last.arg
        /\ checksum(patchedSaveData') = HeaderDigestHex(patchedSaveData')
      ]_vars

(* C4, amended: on a valid buffer, replaceSteamId(newId) with another ID     *)
(* succeeds; the recalculateChecksum() after it succeeds exactly when the    *)
(* stored checksum differs from the digest of the save header, and otherwise *)
(* fails with "Save header checksum is already correct" and changes nothing; *)
(* either way the Steam ID is newId and the checksum the header's digest.    *)
C4_ReplaceThenRecalculate ==
    [][/\ (phase = "loaded" /\ Valid(patchedSaveData) /\ last'.op = "replaceSteamId"
              /\ last'.arg # steamId(patchedSaveData)) =>
           last'.out.status = "ok"
       /\ (last.op = "replaceSteamId" /\ last.out.status = "ok"
              /\ Valid(patchedSaveData) /\ last'.op = "recalculateChecksum") =>
           /\ last'.out.status = "ok"
                <=> checksum(patchedSaveData) # HeaderDigestHex(patchedSaveData)
           /\ last'.out.status # "ok" =>
                /\ last'.out.status = "NoOpError"
                /\ last'.out.what = "Save header checksum is already correct"
                /\ patchedSaveData' = patchedSaveData
           /\ steamId(patchedSaveData') = last.arg
           /\ checksum(patchedSaveData') = HeaderDigestHex(patchedSaveData')
      ]_vars

C4_Witness ==
    /\ last.op = "recalculateChecksum" /\ last.out.status = "ok"
    /\ last.after = "replaceSteamId"
    /\ Valid(patchedSaveData)
    /\ steamId(originalSaveData) = ScenarioOldId
    /\ steamId(patchedSaveData) = ScenarioNewId

(* C5: a write(filename) whose validation of the patched buffer fails leaves *)
(* the output path as it was: no file is created, truncated or written.      *)
C5_FailedWriteLeavesOutput ==
    [][(last'.op = "write" /\ last'.out.status = "FormatError") =>
        outFile' = outFile]_vars

(* C6: replaceSteamId(v) with v the current Steam ID fails with "Steam ID is *)
(* already correct" and changes no byte of the patched or original buffer.   *)
C6_ReplaceSameIdIsNoOp ==
    [][(phase = "loaded" /\ last'.op = "replaceSteamId"
            /\ last'.arg = steamId(patchedSaveData)) =>
        /\ last'.out.status = "NoOpError"
        /\ last'.out.what = "Steam ID is already correct"
        /\ patchedSaveData' = patchedSaveData
        /\ originalSaveData' = originalSaveData
      ]_vars

C6_Witness ==
    /\ last.op = "replaceSteamId" /\ last.out.status = "NoOpError"
    /\ last.arg = steamId(patchedSaveData)
    /\ steamId(patchedSaveData) # steamId(originalSaveData)

(* C7: a recalculateChecksum() called right after a successful one fails     *)
(* with "Save header checksum is already correct" and changes nothing.       *)
C7_SecondRecalculateIsNoOp ==
    [][(last.op = "recalculateChecksum" /\ last.out.status = "ok"
            /\ last'.op = "recalculateChecksum") =>
        /\ last'.out.status = "NoOpError"
        /\ last'.out.what = "Save header checksum is already correct"
        /\ patchedSaveData' = patchedSaveData
      ]_vars

C7_Witness ==
    /\ last.op = "recalculateChecksum" /\ last.out.status = "NoOpError"
    /\ last.after = "recalculateChecksum"
    /\ checksum(patchedSaveData) # checksum(originalSaveData)

(* C8: getActiveSlotIndex(buffer) is the position, from 0, of the first byte *)
(* equal to 1 in the buffer's active flags ([0,0,1,0] gives 2; other         *)
(* non-zero bytes do not count), and the not-found error when none is 1.     *)
C8_FirstByteEqualToOne ==
    (last.op = "getActiveSlotIndex" /\ InRange(ActiveSection, probe)) =>
        LET flags == bytesFrom(ActiveSection, probe)
        IN  /\ IF \E i \in 1..Len(flags) : flags[i] = 1
               THEN /\ last.out.status = "ok"
                    /\ flags[last.result + 1] = 1
                    /\ \A j \in 1..last.result : flags[j] # 1
               ELSE /\ last.out.status = "NotFound"
                    /\ last.out.what = "Could not find active slot index"
            /\ flags = <<0, 0, 1, 0>> => last.result = 2

C8_Witness ==
    /\ last.op = "getActiveSlotIndex" /\ last.out.status = "ok"
    /\ bytesFrom(ActiveSection, probe) = <<2, 0, 0, 1>>
    /\ last.result = 3

(* C9: every read accessor called with a buffer returns the projection of    *)
(* that buffer through its section (activeSlot too: the first active flag of *)
(* the buffer given), and changes no buffer and no other state.              *)
Accessors == {"checksum", "name", "timePlayed", "activeSlot", "steamId", "level"}

Projection(op, data) ==
    CASE op = "checksum" -> FormatHex(bytesFrom(SaveHeaderChecksumSection, data))
      [] op = "name" -> TrimNull(bytesFrom(NameSection, data))
      [] op = "timePlayed" ->
            SecondsToTimeStamp(castInteger(SecondsPlayedSection, data))
      [] op = "activeSlot" -> FindByte(bytesFrom(ActiveSection, data), 1)
      [] op = "steamId" -> castInteger(SteamIdSection, data)
      [] op = "level" -> data[LevelSection.address + 1]

C9_AccessorsProjectTheGivenBuffer ==
    [][last'.op \in Accessors =>
        /\ last'.result = Projection(last'.op, Buffer(last'.buf))
        /\ UNCHANGED <<inFile, outFile, phase, originalSaveData, patchedSaveData,
                       activeSlotIndex, probe>>
      ]_vars

(* C10: a patched buffer that passes validateData passes it after every      *)
(* replaceSteamId and recalculateChecksum, failed or not: the validateData   *)
(* of it, and the one inside write, do not fail.                             *)
C10_ValidityIsPreserved ==
    [][(phase = "loaded" /\ Valid(patchedSaveData)) =>
        /\ Valid(patchedSaveData')
        /\ Len(patchedSaveData') = SaveFileSize
        /\ SubSeq(patchedSaveData', 1, 3) = BND
        /\ (last'.op = "write" \/ (last'.op = "validateData" /\ last'.buf = "patched"))
              => last'.out.status \notin {"FormatError", "OutOfRange"}
      ]_vars

C10_Witness ==
    /\ last.op = "write" /\ last.out.status = "ok"
    /\ outFile = FileOf(patchedSaveData)
    /\ steamId(patchedSaveData) # steamId(originalSaveData)
    /\ checksum(patchedSaveData) # checksum(originalSaveData)
====
